---- MODULE Spec2Model ----
(***************************************************************************)
(* Export pipeline of the code-review extension (src/src/export-factory.ts):*)
(* ExportFactory.exportForFormat drives a CSV parser whose 'data', 'end'   *)
(* and 'error' events call the per-format bundle of exportHandlerMap.      *)
(*                                                                         *)
(* Strings that the code cuts or rewrites (comment, title) are sequences   *)
(* of characters; a range selector "a:b-c:d|e:f-g:h" is the sequence of    *)
(* its tokens <<a,b,c,d>>, <<e,f,g,h>>, the empty selector being <<>>.     *)
(***************************************************************************)
EXTENDS Integers, Sequences, FiniteSets, TLC

\* longest source CSV (number of data rows) that is explored
MaxRows == 3

\* ------------------------------------------------------------------------
\* Program constants
\* ------------------------------------------------------------------------
DescMax == 100
TitleMax == 255

Formats == {"html", "gitlab", "github", "jira", "json"}
GroupKeys == {"filename", "category"}

NL == "\n"
BSL == "\\"
WorkspaceRoot == "/ws"
Undefined == "undefined"

Min(a, b) == IF a < b THEN a ELSE b

\* the element of a one-element set: The({e}) names the value of e, so that a
\* value used many times is computed once
The(S) == CHOOSE x \in S : TRUE

\* String.prototype.substring(0, n)
substring(s, n) == SubSeq(s, 1, Min(n, Len(s)))

\* ------------------------------------------------------------------------
\* utils/workspace-util (not part of the sources at hand)
\* ------------------------------------------------------------------------
\* text.replace(/\\n/g, '\n'): a match is a backslash followed by "n", and two
\* matches never overlap, so the text is rewritten half by half, never cutting
\* a match in two
RECURSIVE unescapeEndOfLineFromCsv(_)
unescapeEndOfLineFromCsv(text) ==
  IF Len(text) <= 2
  THEN IF text = <<BSL, "n">> THEN <<NL>> ELSE text
  ELSE LET mid == Len(text) \div 2
           cut == IF text[mid] = BSL /\ text[mid + 1] = "n" THEN mid + 1 ELSE mid
       IN unescapeEndOfLineFromCsv(SubSeq(text, 1, cut))
            \o unescapeEndOfLineFromCsv(SubSeq(text, cut + 1, Len(text)))

\* text.replace(/\n/g, '\\n')
RECURSIVE escapeEndOfLineForCsv(_)
escapeEndOfLineForCsv(text) ==
  IF Len(text) <= 1
  THEN IF text = <<NL>> THEN <<BSL, "n">> ELSE text
  ELSE LET mid == Len(text) \div 2
       IN escapeEndOfLineForCsv(SubSeq(text, 1, mid))
            \o escapeEndOfLineForCsv(SubSeq(text, mid + 1, Len(text)))

toAbsolutePath(root, name) == <<root, name>>

\* files of the workspace and their number of lines (0: no such file)
FileLines(path) ==
  IF path[1] = WorkspaceRoot /\ path[2] \in {"a.ts", "b.ts"} THEN 3 ELSE 0

\* text of one span: empty when the file or the lines do not exist
getFileContentForRange(filePath, range) ==
  IF FileLines(filePath) > 0 /\ range[1] >= 1 /\ range[3] <= FileLines(filePath)
  THEN <<[sep |-> FALSE, file |-> filePath, tok |-> range, indent |-> TRUE]>>
  ELSE <<>>

\* strip-indent: removes the common leading whitespace
stripIndent(content) ==
  [i \in 1..Len(content) |-> [content[i] EXCEPT !.indent = FALSE]]

\* comparator of two range tokens: start line, then start column
sortLineSelections(a, b) ==
  IF a = <<>> \/ b = <<>> THEN 0
  ELSE IF a[1] # b[1] THEN (IF a[1] < b[1] THEN -1 ELSE 1)
  ELSE IF a[2] # b[2] THEN (IF a[2] < b[2] THEN -1 ELSE 1)
  ELSE 0

\* comparator of two rows: by the first token of their selectors
sortCsvEntryForLines(a, b) ==
  sortLineSelections(IF a.lines = <<>> THEN <<>> ELSE a.lines[1],
                     IF b.lines = <<>> THEN <<>> ELSE b.lines[1])

\* js-base64 encode / decode ('' encodes to '')
encode(text) == [key |-> TRUE, enc |-> text # <<>>, text |-> text]
decode(code) == [code EXCEPT !.enc = FALSE]

\* lines.split('|').sort(sortLineSelections): Array.prototype.sort is stable,
\* an element goes behind those that compare lower and those that compare
\* equal and stood before it
sortSelections(tokens) ==
  LET n == Len(tokens)
      Before(j, i) == \/ sortLineSelections(tokens[j], tokens[i]) < 0
                      \/ sortLineSelections(tokens[j], tokens[i]) = 0 /\ j < i
      Rank(i) == Cardinality({j \in 1..n : Before(j, i)})
  IN [k \in 1..n |-> tokens[CHOOSE i \in 1..n : Rank(i) = k - 1]]

\* group.lines.sort(sortCsvEntryForLines), stable as well
sortEntries(rows) ==
  LET n == Len(rows)
      Before(j, i) == \/ sortCsvEntryForLines(rows[j], rows[i]) < 0
                      \/ sortCsvEntryForLines(rows[j], rows[i]) = 0 /\ j < i
      Rank(i) == Cardinality({j \in 1..n : Before(j, i)})
  IN [k \in 1..n |-> rows[CHOOSE i \in 1..n : Rank(i) = k - 1]]

\* String.prototype.split('|') and Array.prototype.join('|') on selectors:
\* ''.split('|') is [''], and [''].join('|') is ''
split(lines) == IF lines = <<>> THEN <<<<>>>> ELSE lines
join(tokens) == IF tokens = <<<<>>>> THEN <<>> ELSE tokens

\* ------------------------------------------------------------------------
\* State
\* ------------------------------------------------------------------------
VARIABLES
  groupBy,               \* this.groupBy
  includeCodeSelection,  \* this.includeCodeSelection
  priorityMap,           \* configuration 'code-review.priorities'
  source,                \* data rows of the input CSV, as stored
  format,                \* format of the running export ("" before the call)
  template,              \* template argument of exportForFormat
  phase,                 \* "idle", "parsing", "ended", "errored", "crashed"
  pos,                   \* rows delivered by the parser so far
  data,                  \* const data: CsvEntry[] of exportForFormat
  outFile,               \* the file at the export's output path
  before,                \* that file as it was when exportForFormat was called
  messages,              \* window.showInformationMessage / showErrorMessage
  console,               \* console.error
  thrown,                \* exception that left a callback, "" if none
  calls,                 \* invocations of the format's handleData
  reviewExportData,      \* the groups handed to the compiled template
  peer,                  \* a second exportForFormat call on the same factory
  listing,               \* a getFilesContainingComments call and its promise
  runs,                  \* exportForFormat calls made so far for this export
  olderExport            \* an export call of the older ExportFactory

vars == <<groupBy, includeCodeSelection, priorityMap, source, format, template,
          phase, pos, data, outFile, before, messages, console, thrown, calls,
          reviewExportData, peer, listing, runs, olderExport>>

\* ------------------------------------------------------------------------
\* Values
\* ------------------------------------------------------------------------
NoCode == [key |-> FALSE, enc |-> FALSE, text |-> <<>>]
EmptyCode == [key |-> TRUE, enc |-> FALSE, text |-> <<>>]
Separator == [sep |-> TRUE, file |-> <<>>, tok |-> <<>>, indent |-> FALSE]

NoFile == [exists |-> FALSE, content |-> <<>>]
OldFile == [exists |-> TRUE, content |-> <<[old |-> TRUE]>>]

NoTemplate == [given |-> FALSE, readable |-> FALSE, content |-> ""]
Templates ==
  { NoTemplate,
    [given |-> TRUE, readable |-> FALSE, content |-> ""],
    [given |-> TRUE, readable |-> TRUE, content |-> ""],
    [given |-> TRUE, readable |-> TRUE, content |-> "custom"] }

\* the second call: its arguments, its parser, its const data, its output file
NoPeer ==
  [format |-> "", template |-> NoTemplate, phase |-> "idle", pos |-> 0,
   data |-> <<>>, out |-> NoFile, thrown |-> ""]

\* getFilesContainingComments before it is called: the parser's position, the
\* const entries, the promise and the value it was resolved with; items is
\* the list the last getComments call resolved with
NoListing ==
  [phase |-> "idle", pos |-> 0, entries |-> <<>>, resolved |-> FALSE,
   value |-> <<>>, items |-> <<>>]

\* the older ExportFactory and an export of it before it is called: the
\* template of the factory, the format of the method (exportAsHtml ..
\* exportAsJson), its parser, its const rows or data, the file at its output
\* path
NoOlder ==
  [hbsDefaultTemplate |-> "built-in", format |-> "", phase |-> "idle", pos |-> 0,
   data |-> <<>>, out |-> NoFile, thrown |-> ""]

DefaultPriorities == <<"none", "low", "medium", "high">>
PriorityMaps ==
  { [configured |-> FALSE, labels |-> <<>>],
    [configured |-> TRUE, labels |-> DefaultPriorities] }

Row(filename, lines, title, comment, priority, category) ==
  [sha |-> "", filename |-> filename, url |-> "", lines |-> lines,
   title |-> title, comment |-> comment, priority |-> priority,
   category |-> category, additional |-> "", code |-> NoCode]

\* rows a source CSV is made of
SourceRows ==
  { Row("a.ts", << <<3, 1, 3, 4>>, <<2, 2, 2, 6>> >>, <<>>,
        <<"a", BSL, "n", "b">>, "1", ""),
    Row("a.ts", << <<1, 0, 1, 5>>, <<5, 0, 6, 0>> >>, <<"t">>, <<"c">>, "2", "bug"),
    Row("b.ts", << <<2, 3, 2, 6>>, <<2, 1, 2, 2>> >>, <<>>, <<"d">>, "", "bug"),
    Row("gone.ts", << <<1, 0, 2, 0>> >>, <<>>, <<"e">>, "7", "") }

RECURSIVE SeqsUpTo(_, _)
SeqsUpTo(S, n) ==
  IF n = 0 THEN {<<>>}
  ELSE LET shorter == SeqsUpTo(S, n - 1)
       IN shorter \cup {Append(s, x) : s \in {t \in shorter : Len(t) = n - 1}, x \in S}

\* ------------------------------------------------------------------------
\* ExportFactory helpers
\* ------------------------------------------------------------------------
PriorityIndex ==
  ("0" :> 0) @@ ("1" :> 1) @@ ("2" :> 2) @@ ("3" :> 3) @@ ("7" :> 7)

\* the Priority column of the older JIRA export (exportAsJiraCsv): the number
\* the other way around, as it is written into the record
jiraPriorityInverted(priority) ==
  CASE priority = "1" -> "3"
    [] priority = "2" -> "2"
    [] priority = "3" -> "1"
    [] OTHER -> "3"

\* priorityName that answers with the inverted number of the older export
priorityNameInverted(priority) ==
  [thrown |-> "", value |-> jiraPriorityInverted(priority)]

\* priorityName: priorityMap[priority]; a TypeError when the table is undefined
priorityName(priority) ==
  IF ~priorityMap.configured
  THEN [thrown |-> "TypeError: priorityMap is undefined", value |-> Undefined]
  ELSE IF priority \in DOMAIN PriorityIndex
          /\ PriorityIndex[priority] < Len(priorityMap.labels)
       THEN [thrown |-> "", value |-> priorityMap.labels[PriorityIndex[priority] + 1]]
       ELSE [thrown |-> "", value |-> Undefined]

RECURSIVE codeOfRanges(_, _, _)
codeOfRanges(filePath, lineRanges, result) ==
  IF lineRanges = <<>> THEN result
  ELSE LET rangeString == Head(lineRanges)
           fileContent == stripIndent(getFileContentForRange(filePath, rangeString))
       IN codeOfRanges(filePath, Tail(lineRanges),
            IF rangeString = <<>> THEN result
            ELSE IF result # <<>> THEN result \o <<Separator>> \o fileContent
            ELSE fileContent)

\* getCodeForFile that lets a failed resolution escape as an exception
getCodeForFileThrowing(filename, lines) ==
  LET lineRanges == split(lines)
      filePath == toAbsolutePath(WorkspaceRoot, filename)
      unresolved == \E i \in 1..Len(lineRanges) :
                      /\ lineRanges[i] # <<>>
                      /\ getFileContentForRange(filePath, lineRanges[i]) = <<>>
  IN [thrown |-> IF unresolved THEN "Error: cannot resolve range" ELSE "",
      value |-> encode(codeOfRanges(filePath, lineRanges, <<>>))]

getCodeForFile(filename, lines) ==
  LET lineRanges == split(lines)
      filePath == toAbsolutePath(WorkspaceRoot, filename)
  IN [thrown |-> "", value |-> encode(codeOfRanges(filePath, lineRanges, <<>>))]

\* removeLeadingSlash of the older variant
removeLeadingSlash(name) ==
  CASE name = "/a.ts" -> "a.ts"
    [] name = "/b.ts" -> "b.ts"
    [] OTHER -> name

\* the forEach of the older getCodeForFile: every token is resolved, none is
\* skipped, the text is neither stripped of its indent nor encoded
RECURSIVE codeOfRangesOlder(_, _, _)
codeOfRangesOlder(filePath, lineRanges, result) ==
  IF lineRanges = <<>> THEN result
  ELSE LET fileContent == getFileContentForRange(filePath, Head(lineRanges))
       IN codeOfRangesOlder(filePath, Tail(lineRanges),
            IF result # <<>> THEN result \o <<Separator>> \o fileContent
            ELSE fileContent)

\* getCodeForFile of the older variant: for the token '' range.split('-') is
\* [''], end is undefined and end.split(':') throws a TypeError
getCodeForFileOlder(filename, lines) ==
  LET lineRanges == split(lines)
      filePath == toAbsolutePath(WorkspaceRoot, removeLeadingSlash(filename))
  IN IF \E i \in 1..Len(lineRanges) : lineRanges[i] = <<>>
     THEN [thrown |-> "TypeError: end is undefined", value |-> NoCode]
     ELSE [thrown |-> "",
           value |-> [key |-> TRUE, enc |-> FALSE,
                      text |-> codeOfRangesOlder(filePath, lineRanges, <<>>)]]

\* find that never matches: every row opens a group of its own
FindGroupNone(groups, name) == 0

\* reviewExportData.find(...) : index of the first group named name, 0 if none
FindGroup(groups, name) ==
  IF \E i \in 1..Len(groups) : groups[i].group = name
  THEN CHOOSE i \in 1..Len(groups) :
         /\ groups[i].group = name
         /\ \A j \in 1..(i - 1) : groups[j].group # name
  ELSE 0

\* what groupResults leaves in a row object: row.category = row.category ||
\* 'Other', row.lines = row.lines.split('|').sort(sortLineSelections).join('|')
groupedRow(row0) ==
  LET row1 == [row0 EXCEPT !.category = IF row0.category # "" THEN row0.category ELSE "Other"]
  IN [row1 EXCEPT !.lines = join(sortSelections(split(row1.lines)))]

\* the rows handed to groupResults after the call: the row objects are
\* rewritten in place, so the array that holds them shows the rewritten rows
rowsAfterGrouping(rows) == [i \in 1..Len(rows) |-> groupedRow(rows[i])]

\* groupRow without the reordering of the row's tokens
groupRowUnsorted(groups, row0, groupAttribute) ==
  LET row == [row0 EXCEPT !.category = IF row0.category # "" THEN row0.category ELSE "Other"]
      match == FindGroup(groups, row[groupAttribute])
  IN IF match # 0
     THEN [groups EXCEPT ![match].lines = Append(@, row)]
     ELSE Append(groups, [group |-> row[groupAttribute], lines |-> <<row>>])

\* groupRow that puts a row in front of its group (unshift for push)
groupRowUnshift(groups, row0, groupAttribute) ==
  LET row1 == [row0 EXCEPT !.category = IF row0.category # "" THEN row0.category ELSE "Other"]
      row == [row1 EXCEPT !.lines = join(sortSelections(split(row1.lines)))]
      match == FindGroup(groups, row[groupAttribute])
  IN IF match # 0
     THEN [groups EXCEPT ![match].lines = <<row>> \o @]
     ELSE Append(groups, [group |-> row[groupAttribute], lines |-> <<row>>])

groupRow(groups, row0, groupAttribute) ==
  LET row == groupedRow(row0)
      match == FindGroup(groups, row[groupAttribute])
  IN IF match # 0
     THEN [groups EXCEPT ![match].lines = Append(@, row)]
     ELSE Append(groups, [group |-> row[groupAttribute], lines |-> <<row>>])

RECURSIVE groupResults(_, _)
groupResults(rows, groupAttribute) ==
  IF rows = <<>> THEN <<>>
  ELSE groupRow(groupResults(SubSeq(rows, 1, Len(rows) - 1), groupAttribute),
                rows[Len(rows)], groupAttribute)

\* ------------------------------------------------------------------------
\* exportHandlerMap: one bundle per format
\* ------------------------------------------------------------------------
\* fileExtension that gives the github export the extension of the gitlab one
fileExtensionShared(fmt) ==
  CASE fmt = "html" -> "html"
    [] fmt = "gitlab" -> "gitlab.csv"
    [] fmt = "github" -> "gitlab.csv"
    [] fmt = "jira" -> "jira.csv"
    [] fmt = "json" -> "json"

fileExtension(fmt) ==
  CASE fmt = "html" -> "html"
    [] fmt = "gitlab" -> "gitlab.csv"
    [] fmt = "github" -> "github.csv"
    [] fmt = "jira" -> "jira.csv"
    [] fmt = "json" -> "json"

\* every format marked as buffered
storeOutsideAll(fmt) == fmt \in Formats

storeOutside(fmt) == fmt \in {"html", "json"}

basePath == toAbsolutePath(WorkspaceRoot, "code-review")
outputFileOf(fmt) == <<basePath, fileExtension(fmt)>>

Header(fmt) ==
  CASE fmt = "gitlab" -> "title,description"
    [] fmt = "github" -> "title,description,labels,state,assignee"
    [] fmt = "jira" ->
         "Summary,Description,Priority,sha,filename,url,lines,title,category,comment,additional"

\* writeFileHeader that creates an empty output file for the buffered formats
writeFileHeaderAlways(fmt, out) ==
  IF fmt \in {"gitlab", "github", "jira"}
  THEN [exists |-> TRUE, content |-> <<[header |-> Header(fmt)]>>]
  ELSE [exists |-> TRUE, content |-> <<>>]

\* writeFileHeader that appends the header to the file that is there
writeFileHeaderAppend(fmt, out) ==
  IF fmt \in {"gitlab", "github", "jira"}
  THEN [exists |-> TRUE, content |-> Append(out.content, [header |-> Header(fmt)])]
  ELSE out

\* fs.writeFileSync(outputFile, header) for the CSV formats, nothing otherwise
writeFileHeader(fmt, out) ==
  IF fmt \in {"gitlab", "github", "jira"}
  THEN [exists |-> TRUE, content |-> <<[header |-> Header(fmt)]>>]
  ELSE out

\* fs.appendFileSync(outputFile, line)
appendFileSync(out, line) ==
  [exists |-> TRUE, content |-> Append(out.content, line)]

Section(shown, value) == [shown |-> shown, value |-> value]

handleDataHtml(out, row) ==
  IF includeCodeSelection
  THEN The({ [thrown |-> c.thrown, out |-> out, row |-> [row EXCEPT !.code = c.value]]
             : c \in {getCodeForFile(row.filename, row.lines)} })
  ELSE [thrown |-> "", out |-> out, row |-> [row EXCEPT !.code = EmptyCode]]

\* the statements the three CSV transforms start with: comment, code, title
\* csvRow that leaves the comment as the 'data' callback passed it
csvRowRaw(row0) ==
  IF includeCodeSelection
  THEN The({ [thrown |-> c.thrown, row |-> [row0 EXCEPT !.code = c.value]]
             : c \in {getCodeForFile(row0.filename, row0.lines)} })
  ELSE [thrown |-> "", row |-> [row0 EXCEPT !.code = NoCode]]

csvRow(row0) ==
  IF includeCodeSelection
  THEN The({ [thrown |-> c.thrown,
              row |-> [row0 EXCEPT !.comment = escapeEndOfLineForCsv(row0.comment),
                                   !.code = c.value]]
             : c \in {getCodeForFile(row0.filename, row0.lines)} })
  ELSE [thrown |-> "",
        row |-> [row0 EXCEPT !.comment = escapeEndOfLineForCsv(row0.comment),
                             !.code = NoCode]]

\* csvTitle that cuts the comment and leaves the '...' out
csvTitleNoEllipsis(row) ==
  LET descShort == IF Len(row.comment) > DescMax
                   THEN substring(row.comment, DescMax)
                   ELSE row.comment
  IN IF row.title # <<>> THEN substring(row.title, TitleMax) ELSE descShort

csvTitle(row) ==
  LET descShort == IF Len(row.comment) > DescMax
                   THEN substring(row.comment, DescMax) \o <<".", ".", ".">>
                   ELSE row.comment
  IN IF row.title # <<>> THEN substring(row.title, TitleMax) ELSE descShort

\* description of the gitlab and github formats (Markdown)
markdownDescription(row, priorityLabel) ==
  [priority |-> Section(row.priority # "", priorityLabel),
   category |-> Section(row.category # "", row.category),
   fileRow |-> [file |-> row.filename, url |-> row.url],
   linesRow |-> row.lines,
   shaRow |-> Section(row.sha # "", row.sha),
   comment |-> row.comment,
   additional |-> Section(row.additional # "", row.additional),
   code |-> Section(row.code.key /\ row.code.text # <<>>, row.code)]

handleDataGitlab(out, row0) ==
  The({ IF r.thrown # "" THEN [thrown |-> r.thrown, out |-> out, row |-> r.row]
        ELSE The({
          IF p.thrown # "" THEN [thrown |-> p.thrown, out |-> out, row |-> r.row]
          ELSE [thrown |-> "",
                out |-> appendFileSync(out,
                          [title |-> <<"[code review] ", csvTitle(r.row)>>,
                           description |-> markdownDescription(r.row, p.value)]),
                row |-> r.row]
          : p \in {IF r.row.priority # "" THEN priorityName(r.row.priority)
                   ELSE [thrown |-> "", value |-> Undefined]} })
      : r \in {csvRow(row0)} })

handleDataGithub(out, row0) ==
  The({ IF r.thrown # "" THEN [thrown |-> r.thrown, out |-> out, row |-> r.row]
        ELSE The({
          IF p.thrown # "" THEN [thrown |-> p.thrown, out |-> out, row |-> r.row]
          ELSE [thrown |-> "",
                out |-> appendFileSync(out,
                          [title |-> <<"[code review] ", csvTitle(r.row)>>,
                           description |-> markdownDescription(r.row, p.value),
                           labels |-> "code-review", state |-> "open",
                           assignee |-> ""]),
                row |-> r.row]
          : p \in {IF r.row.priority # "" THEN priorityName(r.row.priority)
                   ELSE [thrown |-> "", value |-> Undefined]} })
      : r \in {csvRow(row0)} })

\* description of the jira format (JIRA markup)
jiraDescription(row) ==
  [fileRow |-> [file |-> row.filename, url |-> row.url],
   linesRow |-> row.lines,
   shaRow |-> Section(row.sha # "", row.sha),
   category |-> Section(TRUE, row.category),
   comment |-> row.comment,
   additional |-> Section(row.additional # "", row.additional),
   code |-> Section(row.code.key /\ row.code.text # <<>>, row.code)]

jiraLine(row, priorityLabel) ==
  [Summary |-> <<"[code review] ", csvTitle(row)>>,
   Description |-> jiraDescription(row), Priority |-> priorityLabel,
   sha |-> row.sha, filename |-> row.filename, url |-> row.url,
   lines |-> row.lines, title |-> row.title, category |-> row.category,
   comment |-> row.comment, additional |-> row.additional]

handleDataJira(out, row0) ==
  The({ IF r.thrown # "" THEN [thrown |-> r.thrown, out |-> out, row |-> r.row]
        ELSE The({
          IF p.thrown # "" THEN [thrown |-> p.thrown, out |-> out, row |-> r.row]
          ELSE [thrown |-> "", out |-> appendFileSync(out, jiraLine(r.row, p.value)),
                row |-> r.row]
          : p \in {priorityName(r.row.priority)} })
      : r \in {csvRow(row0)} })

\* json handleData that leaves the row alone when code is not included
handleDataJsonKeep(out, row) ==
  IF includeCodeSelection
  THEN The({ [thrown |-> c.thrown, out |-> out, row |-> [row EXCEPT !.code = c.value]]
             : c \in {getCodeForFile(row.filename, row.lines)} })
  ELSE [thrown |-> "", out |-> out, row |-> row]

handleDataJson(out, row) ==
  IF includeCodeSelection
  THEN The({ [thrown |-> c.thrown, out |-> out, row |-> [row EXCEPT !.code = c.value]]
             : c \in {getCodeForFile(row.filename, row.lines)} })
  ELSE [thrown |-> "", out |-> out, row |-> [row EXCEPT !.code = NoCode]]

handleData(fmt, out, row) ==
  CASE fmt = "html" -> handleDataHtml(out, row)
    [] fmt = "gitlab" -> handleDataGitlab(out, row)
    [] fmt = "github" -> handleDataGithub(out, row)
    [] fmt = "jira" -> handleDataJira(out, row)
    [] fmt = "json" -> handleDataJson(out, row)

Info(text, path) == [kind |-> "info", text |-> text, path |-> path]
Error(text, path) == [kind |-> "error", text |-> text, path |-> path]

\* group.lines.sort(sortCsvEntryForLines) on every group
sortGroups(groups) ==
  [i \in 1..Len(groups) |->
     [groups[i] EXCEPT !.lines = sortEntries(@)]]

\* templateCompiled(reviewExportData): the sections of the document, the code
\* of a row passed through the codeBlock helper; '' for an empty template
templateCompiled(templateData, groups) ==
  IF templateData = "" THEN [template |-> "", sections |-> <<>>]
  ELSE [template |-> templateData,
        sections |-> [i \in 1..Len(groups) |->
           [groups[i] EXCEPT !.lines =
              [k \in 1..Len(@) |-> [@[k] EXCEPT !.code = decode(@)]]]]]

handleEndHtml(out, rows, tpl) ==
  LET templateData == tpl.content
      grouped == groupResults(rows, groupBy)
      sections == IF groupBy = "filename" THEN sortGroups(grouped) ELSE grouped
      htmlOut == templateCompiled(templateData, sections)
      failed == IF templateData = ""
                THEN <<Error("Error when reading the template file", tpl)>>
                ELSE <<>>
  IN IF ~tpl.given
     THEN [thrown |-> "TypeError: template is undefined", out |-> out,
           msgs |-> <<>>, groups |-> <<>>, rows |-> rows]
     ELSE IF ~tpl.readable
     THEN [thrown |-> "ENOENT: template", out |-> out, msgs |-> <<>>, groups |-> <<>>,
           rows |-> rows]
     ELSE [thrown |-> "", out |-> [exists |-> TRUE, content |-> <<htmlOut>>],
           msgs |-> failed \o <<Info("Code review file successfully created", outputFileOf("html"))>>,
           groups |-> sections, rows |-> rowsAfterGrouping(rows)]

handleEndCsv(fmt, out) ==
  [thrown |-> "", out |-> out,
   msgs |-> <<Info("importable file successfully created", outputFileOf(fmt))>>,
   groups |-> <<>>, rows |-> <<>>]

handleEndJson(out, rows) ==
  [thrown |-> "", out |-> [exists |-> TRUE, content |-> <<[json |-> rows]>>],
   msgs |-> <<Info("GitHub importable CSV file successfully created", outputFileOf("json"))>>,
   groups |-> <<>>, rows |-> rows]

handleEnd(fmt, out, rows, tpl) ==
  CASE fmt = "html" -> handleEndHtml(out, rows, tpl)
    [] fmt = "json" -> handleEndJson(out, rows)
    [] OTHER -> handleEndCsv(fmt, out)

\* 'data' callback that buffers the result of both handleData calls
onDataPushTwice(fmt, out, buffered, row0) ==
  The({ IF ~storeOutside(fmt) \/ first.thrown # ""
        THEN [thrown |-> first.thrown, out |-> first.out, data |-> buffered, calls |-> 1]
        ELSE The({ [thrown |-> second.thrown, out |-> second.out,
                    data |-> buffered \o <<first.row, second.row>>, calls |-> 2]
                   : second \in {handleData(fmt, first.out, first.row)} })
      : first \in {handleData(fmt, out,
                     [row0 EXCEPT !.comment = unescapeEndOfLineFromCsv(row0.comment)])} })

\* the 'data' callback of exportForFormat
onData(fmt, out, buffered, row0) ==
  The({ IF ~storeOutside(fmt) \/ first.thrown # ""
        THEN [thrown |-> first.thrown, out |-> first.out, data |-> buffered, calls |-> 1]
        ELSE The({ [thrown |-> second.thrown, out |-> second.out,
                    data |-> Append(buffered, second.row), calls |-> 2]
                   : second \in {handleData(fmt, first.out, first.row)} })
      : first \in {handleData(fmt, out,
                     [row0 EXCEPT !.comment = unescapeEndOfLineFromCsv(row0.comment)])} })

\* ------------------------------------------------------------------------
\* Behaviour
\* ------------------------------------------------------------------------
Init ==
  /\ groupBy \in GroupKeys
  /\ includeCodeSelection \in BOOLEAN
  /\ priorityMap \in PriorityMaps
  /\ source \in SeqsUpTo(SourceRows, MaxRows)
  /\ outFile \in {NoFile, OldFile}
  /\ before = outFile
  /\ format = ""
  /\ template = NoTemplate
  /\ phase = "idle"
  /\ pos = 0
  /\ data = <<>>
  /\ messages = <<>>
  /\ console = <<>>
  /\ thrown = ""
  /\ calls = 0
  /\ reviewExportData = <<>>
  /\ peer = NoPeer
  /\ listing = NoListing
  /\ runs = 0
  /\ olderExport = NoOlder

\* output paths of the older exports: <root>/code-review.<extension>
olderFileExtension(fmt) ==
  CASE fmt = "html" -> "html"
    [] fmt = "gitlab" -> "gitlab.csv"
    [] fmt = "github" -> "github.csv"
    [] fmt = "jira" -> "jira.csv"
    [] fmt = "json" -> "json"

olderOutputFileOf(fmt) ==
  <<toAbsolutePath(WorkspaceRoot, "code-review"), olderFileExtension(fmt)>>

\* an export of the older factory and exportForFormat(fmt) name one file
OlderShares(fmt) ==
  olderExport.phase # "idle" /\ olderOutputFileOf(olderExport.format) = outputFileOf(fmt)

\* the two calls write to one file when their output paths are the same
SameFile ==
  peer.phase # "idle" /\ outputFileOf(format) = outputFileOf(peer.format)

\* exportForFormat(format, template): header, then the parser is started
ExportForFormat(fmt, tpl) ==
  /\ phase = "idle"
  /\ format' = fmt
  /\ template' = tpl
  /\ \E found \in {IF OlderShares(fmt) THEN olderExport.out ELSE outFile} :
       /\ before' = found
       /\ outFile' = writeFileHeader(fmt, found)
  /\ phase' = "parsing"
  /\ UNCHANGED <<groupBy, includeCodeSelection, priorityMap, source, pos, data,
                 messages, console, thrown, calls, reviewExportData, peer>>
  /\ UNCHANGED listing
  /\ runs' = runs + 1
  /\ olderExport' = IF OlderShares(fmt) THEN [olderExport EXCEPT !.out = outFile']
                    ELSE olderExport

\* .on('data', ...): the parser delivers the next row
ParserData ==
  /\ phase = "parsing"
  /\ pos < Len(source)
  /\ \E r \in {onData(format, outFile, data, source[pos + 1])} :
        /\ outFile' = r.out
        /\ data' = r.data
        /\ calls' = calls + r.calls
        /\ thrown' = r.thrown
        /\ phase' = IF r.thrown # "" THEN "crashed" ELSE "parsing"
  /\ pos' = pos + 1
  /\ peer' = IF SameFile THEN [peer EXCEPT !.out = outFile'] ELSE peer
  /\ UNCHANGED <<groupBy, includeCodeSelection, priorityMap, source, format,
                 template, before, messages, console, reviewExportData>>
  /\ UNCHANGED listing
  /\ UNCHANGED runs
  /\ olderExport' = IF OlderShares(format) THEN [olderExport EXCEPT !.out = outFile']
                    ELSE olderExport

\* .on('end', ...): every row was delivered; the finalize step of html
\* rewrites the buffered rows in place (groupResults)
ParserEnd ==
  /\ phase = "parsing"
  /\ pos = Len(source)
  /\ \E e \in {handleEnd(format, outFile,
                          IF storeOutside(format) THEN data ELSE <<>>, template)} :
        /\ outFile' = e.out
        /\ messages' = messages \o e.msgs
        /\ reviewExportData' = e.groups
        /\ data' = IF storeOutside(format) THEN e.rows ELSE data
        /\ thrown' = e.thrown
        /\ phase' = IF e.thrown # "" THEN "crashed" ELSE "ended"
  /\ peer' = IF SameFile THEN [peer EXCEPT !.out = outFile'] ELSE peer
  /\ UNCHANGED <<groupBy, includeCodeSelection, priorityMap, source, format,
                 template, pos, before, console, calls>>
  /\ UNCHANGED listing
  /\ UNCHANGED runs
  /\ olderExport' = IF OlderShares(format) THEN [olderExport EXCEPT !.out = outFile']
                    ELSE olderExport

\* .on('error', this.handleError): console.error(error), nothing else
handleError(log, error) == Append(log, error)

ParserError ==
  /\ phase = "parsing"
  /\ console' = handleError(console, [error |-> "cannot parse", row |-> pos + 1])
  /\ phase' = "errored"
  /\ UNCHANGED <<groupBy, includeCodeSelection, priorityMap, source, format,
                 template, pos, data, outFile, before, messages, thrown, calls,
                 reviewExportData, peer>>
  /\ UNCHANGED listing
  /\ UNCHANGED runs
  /\ UNCHANGED olderExport

Next ==
  \/ \E fmt \in Formats :
       \E tpl \in (IF fmt = "html" THEN Templates ELSE {NoTemplate}) :
         ExportForFormat(fmt, tpl)
  \/ ParserData
  \/ ParserEnd
  \/ ParserError

Spec == Init /\ [][Next]_vars

\* ------------------------------------------------------------------------
\* Sources of one row with long texts or a `code` column of their own
\* ------------------------------------------------------------------------
Text(n) == [i \in 1..n |-> "x"]

LongTexts ==
  { <<"c">>, Text(DescMax), Text(DescMax + 1), Text(DescMax - 1) \o <<BSL, "n">> }
Titles == { <<>>, Text(TitleMax), Text(TitleMax + 1) }
CsvCode ==
  [key |-> TRUE, enc |-> FALSE,
   text |-> <<[sep |-> FALSE, file |-> "csv", tok |-> <<>>, indent |-> FALSE]>>]

WideRows ==
  { [Row("a.ts", << <<1, 0, 1, 5>> >>, title, comment, "1", "bug") EXCEPT !.code = code] :
      title \in Titles, comment \in LongTexts, code \in {NoCode, CsvCode} }

InitRows ==
  /\ groupBy \in GroupKeys
  /\ includeCodeSelection \in BOOLEAN
  /\ priorityMap \in PriorityMaps
  /\ source \in {<<row>> : row \in WideRows}
  /\ outFile \in {NoFile, OldFile}
  /\ before = outFile
  /\ format = ""
  /\ template = NoTemplate
  /\ phase = "idle"
  /\ pos = 0
  /\ data = <<>>
  /\ messages = <<>>
  /\ console = <<>>
  /\ thrown = ""
  /\ calls = 0
  /\ reviewExportData = <<>>
  /\ peer = NoPeer
  /\ listing = NoListing
  /\ runs = 0
  /\ olderExport = NoOlder

SpecRows == InitRows /\ [][Next]_vars

\* ------------------------------------------------------------------------
\* Two exportForFormat calls on one factory, their callbacks interleaved
\* ------------------------------------------------------------------------
MaxPairRows == 2

\* rows of the source both parsers read: one that resolves, one that does not
PairRows == {row \in SourceRows : row.priority \in {"1", "7"}}

InitTwo ==
  /\ groupBy \in GroupKeys
  /\ includeCodeSelection \in BOOLEAN
  /\ priorityMap \in PriorityMaps
  /\ source \in SeqsUpTo(PairRows, MaxPairRows)
  /\ outFile = NoFile
  /\ before = outFile
  /\ format = ""
  /\ template = NoTemplate
  /\ phase = "idle"
  /\ pos = 0
  /\ data = <<>>
  /\ messages = <<>>
  /\ console = <<>>
  /\ thrown = ""
  /\ calls = 0
  /\ reviewExportData = <<>>
  /\ peer = NoPeer
  /\ listing = NoListing
  /\ runs = 0
  /\ olderExport = NoOlder

\* the second exportForFormat call, for another format, made right after the
\* first one: no callback of the first parser has run yet
PeerExport(fmt, tpl) ==
  /\ phase = "parsing"
  /\ pos = 0
  /\ peer.phase = "idle"
  /\ fmt # format
  /\ \E file \in {writeFileHeader(fmt, IF outputFileOf(fmt) = outputFileOf(format)
                                       THEN outFile ELSE NoFile)} :
        /\ peer' = [format |-> fmt, template |-> tpl, phase |-> "parsing", pos |-> 0,
                    data |-> <<>>, out |-> file, thrown |-> ""]
        /\ outFile' = IF outputFileOf(fmt) = outputFileOf(format) THEN file ELSE outFile
  /\ UNCHANGED <<groupBy, includeCodeSelection, priorityMap, source, format,
                 template, phase, pos, data, before, messages, console, thrown,
                 calls, reviewExportData>>
  /\ UNCHANGED listing
  /\ UNCHANGED runs
  /\ UNCHANGED olderExport

\* 'data' callback of the second call
PeerData ==
  /\ peer.phase = "parsing"
  /\ peer.pos < Len(source)
  /\ \E r \in {onData(peer.format, peer.out, peer.data, source[peer.pos + 1])} :
        /\ peer' = [peer EXCEPT !.out = r.out, !.data = r.data, !.thrown = r.thrown,
                                !.pos = @ + 1,
                                !.phase = IF r.thrown # "" THEN "crashed" ELSE "parsing"]
        /\ outFile' = IF SameFile THEN r.out ELSE outFile
  /\ UNCHANGED <<groupBy, includeCodeSelection, priorityMap, source, format,
                 template, phase, pos, data, before, messages, console, thrown,
                 calls, reviewExportData>>
  /\ UNCHANGED listing
  /\ UNCHANGED runs
  /\ UNCHANGED olderExport

\* 'end' callback of the second call
PeerEnd ==
  /\ peer.phase = "parsing"
  /\ peer.pos = Len(source)
  /\ \E e \in {handleEnd(peer.format, peer.out,
                          IF storeOutside(peer.format) THEN peer.data ELSE <<>>,
                          peer.template)} :
        /\ peer' = [peer EXCEPT !.out = e.out, !.thrown = e.thrown,
                                !.data = IF storeOutside(peer.format) THEN e.rows ELSE @,
                                !.phase = IF e.thrown # "" THEN "crashed" ELSE "ended"]
        /\ outFile' = IF SameFile THEN e.out ELSE outFile
        /\ messages' = messages \o e.msgs
  /\ UNCHANGED <<groupBy, includeCodeSelection, priorityMap, source, format,
                 template, phase, pos, data, before, console, thrown, calls,
                 reviewExportData>>
  /\ UNCHANGED listing
  /\ UNCHANGED runs
  /\ UNCHANGED olderExport

\* 'error' callback of the second call
PeerError ==
  /\ peer.phase = "parsing"
  /\ console' = handleError(console, [error |-> "cannot parse", row |-> peer.pos + 1])
  /\ peer' = [peer EXCEPT !.phase = "errored"]
  /\ UNCHANGED <<groupBy, includeCodeSelection, priorityMap, source, format,
                 template, phase, pos, data, outFile, before, messages, thrown,
                 calls, reviewExportData>>
  /\ UNCHANGED listing
  /\ UNCHANGED runs
  /\ UNCHANGED olderExport

NextTwo ==
  \/ \E fmt \in Formats :
       \E tpl \in (IF fmt = "html" THEN Templates ELSE {NoTemplate}) :
         ExportForFormat(fmt, tpl)
  \/ ParserData
  \/ ParserEnd
  \/ ParserError
  \/ \E fmt \in Formats :
       \E tpl \in (IF fmt = "html" THEN Templates ELSE {NoTemplate}) :
         PeerExport(fmt, tpl)
  \/ PeerData
  \/ PeerEnd
  \/ PeerError

SpecTwo == InitTwo /\ [][NextTwo]_vars

\* ------------------------------------------------------------------------
\* getFilesContainingComments: the files of the review as list entries
\* ------------------------------------------------------------------------
\* one CommentListEntry per group: label, number of comments, the group
listEntries(sortedByFile) ==
  [i \in 1..Len(sortedByFile) |->
     [label |-> sortedByFile[i].group, comments |-> Len(sortedByFile[i].lines),
      data |-> sortedByFile[i], contextValue |-> "file"]]

\* the call: Promise.resolve([]) when the input file is missing or the
\* generator's check fails, else a pending promise and a parser at work
GetFilesContainingComments(exists, check) ==
  /\ listing.phase = "idle"
  /\ listing' = IF ~exists \/ ~check
                THEN [listing EXCEPT !.phase = "returned", !.resolved = TRUE, !.value = <<>>]
                ELSE [listing EXCEPT !.phase = "parsing"]
  /\ UNCHANGED <<groupBy, includeCodeSelection, priorityMap, source, format,
                 template, phase, pos, data, outFile, before, messages, console,
                 thrown, calls, reviewExportData, peer>>
  /\ UNCHANGED runs
  /\ UNCHANGED olderExport

\* .on('data', (row) => entries.push(row))
ListingData ==
  /\ listing.phase = "parsing"
  /\ listing.pos < Len(source)
  /\ listing' = [listing EXCEPT !.entries = Append(@, source[listing.pos + 1]),
                                !.pos = @ + 1]
  /\ UNCHANGED <<groupBy, includeCodeSelection, priorityMap, source, format,
                 template, phase, pos, data, outFile, before, messages, console,
                 thrown, calls, reviewExportData, peer>>
  /\ UNCHANGED runs
  /\ UNCHANGED olderExport

\* .on('end', ...): group by filename, build the entries, resolve
ListingEnd ==
  /\ listing.phase = "parsing"
  /\ listing.pos = Len(source)
  /\ \E sortedByFile \in {groupResults(listing.entries, "filename")} :
       listing' = [listing EXCEPT !.phase = "ended", !.resolved = TRUE,
                                  !.entries = rowsAfterGrouping(@),
                                  !.value = listEntries(sortedByFile)]
  /\ UNCHANGED <<groupBy, includeCodeSelection, priorityMap, source, format,
                 template, phase, pos, data, outFile, before, messages, console,
                 thrown, calls, reviewExportData, peer>>
  /\ UNCHANGED runs
  /\ UNCHANGED olderExport

\* .on('error', () => this.handleError): the listener names handleError and
\* does not call it; nothing is logged, nothing is resolved
ListingError ==
  /\ listing.phase = "parsing"
  /\ listing' = [listing EXCEPT !.phase = "errored"]
  /\ UNCHANGED <<groupBy, includeCodeSelection, priorityMap, source, format,
                 template, phase, pos, data, outFile, before, messages, console,
                 thrown, calls, reviewExportData, peer>>
  /\ UNCHANGED runs
  /\ UNCHANGED olderExport

\* Number(entry.priority): '' is 0
Number(priority) == IF priority = "" THEN 0 ELSE PriorityIndex[priority]

\* getIcon(prio): the file name of the icon
getIcon(prio) ==
  CASE prio = 3 -> "red.svg"
    [] prio = 2 -> "yellow.svg"
    [] prio = 1 -> "green.svg"
    [] OTHER -> "unset.svg"

\* entry.comment = unescapeEndOfLineFromCsv(entry.comment)
commentUnescaped(entry) ==
  [entry EXCEPT !.comment = unescapeEndOfLineFromCsv(@)]

\* one CommentListEntry per row of the group
commentItems(lines) ==
  [k \in 1..Len(lines) |->
     [label |-> lines[k].title, description |-> lines[k].comment,
      prio |-> Number(lines[k].priority), contextValue |-> "comment",
      icon |-> getIcon(Number(lines[k].priority)), entry |-> lines[k]]]

\* getComments(commentGroupedInFile) on an entry of the resolved list: the
\* comment of every row of the group is rewritten in place, so the rows show
\* the rewritten comment in the group and in entries, where the same objects
\* are held (the rows of a group by filename are the entries of that file)
GetComments(i) ==
  /\ listing.phase = "ended"
  /\ i \in 1..Len(listing.value)
  /\ \E lines \in {[k \in 1..Len(listing.value[i].data.lines) |->
                       commentUnescaped(listing.value[i].data.lines[k])]} :
       listing' = [listing EXCEPT
                     !.value[i].data.lines = lines,
                     !.entries = [j \in 1..Len(@) |->
                                    IF @[j].filename = listing.value[i].data.group
                                    THEN commentUnescaped(@[j]) ELSE @[j]],
                     !.items = commentItems(lines)]
  /\ UNCHANGED <<groupBy, includeCodeSelection, priorityMap, source, format,
                 template, phase, pos, data, outFile, before, messages, console,
                 thrown, calls, reviewExportData, peer>>
  /\ UNCHANGED runs
  /\ UNCHANGED olderExport

NextListing ==
  \/ \E exists, check \in BOOLEAN : GetFilesContainingComments(exists, check)
  \/ ListingData
  \/ ListingEnd
  \/ ListingError
  \/ \E i \in 1..MaxRows : GetComments(i)

SpecListing == Init /\ [][NextListing]_vars

\* ------------------------------------------------------------------------
\* The same export called again after it completed
\* ------------------------------------------------------------------------
MaxRuns == 2
MaxAgainRows == 2

InitAgain ==
  /\ groupBy \in GroupKeys
  /\ includeCodeSelection \in BOOLEAN
  /\ priorityMap \in PriorityMaps
  /\ source \in SeqsUpTo(SourceRows, MaxAgainRows)
  /\ outFile \in {NoFile, OldFile}
  /\ before = outFile
  /\ format = ""
  /\ template = NoTemplate
  /\ phase = "idle"
  /\ pos = 0
  /\ data = <<>>
  /\ messages = <<>>
  /\ console = <<>>
  /\ thrown = ""
  /\ calls = 0
  /\ reviewExportData = <<>>
  /\ peer = NoPeer
  /\ listing = NoListing
  /\ runs = 0
  /\ olderExport = NoOlder

\* exportForFormat(format, template) once more, with the arguments of the
\* call that reached 'end': a new const data, a new parser on the same source
ExportAgain ==
  /\ phase = "ended"
  /\ runs < MaxRuns
  /\ runs' = runs + 1
  /\ before' = outFile
  /\ outFile' = writeFileHeader(format, outFile)
  /\ phase' = "parsing"
  /\ pos' = 0
  /\ data' = <<>>
  /\ calls' = 0
  /\ reviewExportData' = <<>>
  /\ UNCHANGED <<groupBy, includeCodeSelection, priorityMap, source, format,
                 template, messages, console, thrown, peer, listing>>
  /\ UNCHANGED olderExport

NextAgain ==
  \/ \E fmt \in Formats :
       \E tpl \in (IF fmt = "html" THEN Templates ELSE {NoTemplate}) :
         ExportForFormat(fmt, tpl)
  \/ ParserData
  \/ ParserEnd
  \/ ParserError
  \/ ExportAgain

SpecAgain == InitAgain /\ [][NextAgain]_vars

\* ------------------------------------------------------------------------
\* Sources with rows whose `lines` is empty, exported by the present
\* exportForFormat and by the export methods of the older ExportFactory
\* (exportAsHtml .. exportAsJson) in one workspace: an older export and a
\* present one of the same extension write the same file
\* ------------------------------------------------------------------------
MaxLineRows == 2

LineRows ==
  { Row("a.ts", <<>>, <<>>, <<"e">>, "1", "bug"),
    Row("a.ts", << <<1, 0, 1, 5>> >>, <<>>, <<"f">>, "2", "bug") }

\* templates the older factory is constructed with: none, or a file that
\* can be read (fs.readFileSync throws on any other and no factory is made)
OlderTemplates == { t \in Templates : ~t.given \/ t.readable }

\* constructor(workspaceRoot, template) of the older factory: the template
\* file replaces the built-in template, an empty one is reported
olderConstructed(tpl) ==
  IF ~tpl.given THEN [factory |-> NoOlder, messages |-> <<>>]
  ELSE [factory |-> [NoOlder EXCEPT !.hbsDefaultTemplate = tpl.content],
        messages |-> IF tpl.content = ""
                     THEN <<Error("Error when reading the template file", tpl)>>
                     ELSE <<>>]

InitLines ==
  /\ groupBy \in GroupKeys
  /\ includeCodeSelection \in BOOLEAN
  /\ priorityMap \in PriorityMaps
  /\ source \in SeqsUpTo(LineRows, MaxLineRows)
  /\ outFile = NoFile
  /\ before = outFile
  /\ format = ""
  /\ template = NoTemplate
  /\ phase = "idle"
  /\ pos = 0
  /\ data = <<>>
  /\ \E tpl \in OlderTemplates :
       /\ olderExport = olderConstructed(tpl).factory
       /\ messages = olderConstructed(tpl).messages
  /\ console = <<>>
  /\ thrown = ""
  /\ calls = 0
  /\ reviewExportData = <<>>
  /\ peer = NoPeer
  /\ listing = NoListing
  /\ runs = 0

\* priorityName of the older variant: a switch, no configured table
olderPriorityName(priority) ==
  CASE priority = "1" -> "low"
    [] priority = "2" -> "medium"
    [] priority = "3" -> "high"
    [] OTHER -> "none"

\* what the older groupResults leaves in a row object: the priority's name
\* for its number, 'Other' for an empty category; the tokens are not sorted
olderGroupedRow(row0) ==
  [row0 EXCEPT !.priority = olderPriorityName(row0.priority),
               !.category = IF row0.category # "" THEN row0.category ELSE "Other"]

olderRowsAfterGrouping(rows) == [i \in 1..Len(rows) |-> olderGroupedRow(rows[i])]

olderGroupRow(groups, row0, groupAttribute) ==
  LET row == olderGroupedRow(row0)
      match == FindGroup(groups, row[groupAttribute])
  IN IF match # 0
     THEN [groups EXCEPT ![match].lines = Append(@, row)]
     ELSE Append(groups, [group |-> row[groupAttribute], lines |-> <<row>>])

RECURSIVE olderGroupResults(_, _)
olderGroupResults(rows, groupAttribute) ==
  IF rows = <<>> THEN <<>>
  ELSE olderGroupRow(olderGroupResults(SubSeq(rows, 1, Len(rows) - 1), groupAttribute),
                     rows[Len(rows)], groupAttribute)

\* the statement the 'data' callbacks start with: row.code is the code of
\* the row, or '' (exportAsHtml) or no key (delete row.code) without code
olderCodeRow(fmt, row) ==
  IF includeCodeSelection
  THEN The({ [thrown |-> c.thrown, row |-> [row EXCEPT !.code = c.value]]
             : c \in {getCodeForFileOlder(row.filename, row.lines)} })
  ELSE [thrown |-> "",
        row |-> [row EXCEPT !.code = IF fmt = "html" THEN EmptyCode ELSE NoCode]]

\* the record a 'data' callback of the three CSV exports appends; the comment
\* is written as the parser delivered it
olderCsvLine(fmt, row) ==
  LET priority == IF row.priority # "" THEN olderPriorityName(row.priority)
                  ELSE Undefined
  IN CASE fmt = "gitlab" ->
            [title |-> <<"[code review] ", csvTitle(row)>>,
             description |-> markdownDescription(row, priority)]
       [] fmt = "github" ->
            [title |-> <<"[code review] ", csvTitle(row)>>,
             description |-> markdownDescription(row, priority),
             labels |-> "code-review", state |-> "open", assignee |-> ""]
       [] fmt = "jira" -> jiraLine(row, jiraPriorityInverted(row.priority))

\* the 'data' callback of an older export: the file and the buffered rows
olderOnData(fmt, out, buffered, row0) ==
  The({ IF r.thrown # ""
        THEN [thrown |-> r.thrown, out |-> out, data |-> buffered]
        ELSE IF fmt \in {"html", "json"}
        THEN [thrown |-> "", out |-> out, data |-> Append(buffered, r.row)]
        ELSE [thrown |-> "", out |-> appendFileSync(out, olderCsvLine(fmt, r.row)),
              data |-> buffered]
      : r \in {olderCodeRow(fmt, row0)} })

\* template(reviewExportData) of the older factory: the sections of the
\* document, the code of a row as it is; '' for an empty template
olderTemplate(groups) ==
  IF olderExport.hbsDefaultTemplate = "" THEN [template |-> "", sections |-> <<>>]
  ELSE [template |-> olderExport.hbsDefaultTemplate, sections |-> groups]

\* the 'end' callback of an older export: the file, the message, the rows
\* (console.log of exportAsHtml writes to the log, not to console.error)
olderOnEnd(fmt, out, rows) ==
  CASE fmt = "html" ->
         [out |-> [exists |-> TRUE,
                   content |-> <<olderTemplate(olderGroupResults(rows, groupBy))>>],
          msg |-> Info("Code review file successfully created", olderOutputFileOf(fmt)),
          rows |-> olderRowsAfterGrouping(rows)]
    [] fmt = "json" ->
         [out |-> [exists |-> TRUE, content |-> <<[json |-> rows]>>],
          msg |-> Info("GitLab CSV file successfully created", olderOutputFileOf(fmt)),
          rows |-> rows]
    [] OTHER ->
         [out |-> out,
          msg |-> Info("importable file successfully created", olderOutputFileOf(fmt)),
          rows |-> rows]

\* exportForFormat of the present factory and the older export name one file
PresentShares(fmt) ==
  format # "" /\ outputFileOf(format) = olderOutputFileOf(fmt)

\* an export method of the older factory is called: the CSV exports write
\* their header, the parser is started
OlderExport(fmt) ==
  /\ olderExport.phase = "idle"
  /\ \E found \in {IF PresentShares(fmt) THEN outFile ELSE olderExport.out} :
       \E out \in {IF fmt \in {"gitlab", "github", "jira"}
                   THEN [exists |-> TRUE, content |-> <<[header |-> Header(fmt)]>>]
                   ELSE found} :
         /\ olderExport' = [olderExport EXCEPT !.format = fmt, !.phase = "parsing",
                                               !.out = out]
         /\ outFile' = IF PresentShares(fmt) THEN out ELSE outFile
  /\ UNCHANGED <<groupBy, includeCodeSelection, priorityMap, source, format,
                 template, phase, pos, data, before, messages, console,
                 thrown, calls, reviewExportData, peer, listing, runs>>

OlderExportAsHtml == OlderExport("html")
OlderExportAsGitLabCsv == OlderExport("gitlab")
OlderExportAsGitHubCsv == OlderExport("github")
OlderExportAsJiraCsv == OlderExport("jira")
OlderExportAsJson == OlderExport("json")

\* .on('data', ...) of the older export that is running
OlderData ==
  /\ olderExport.phase = "parsing"
  /\ olderExport.pos < Len(source)
  /\ \E r \in {olderOnData(olderExport.format, olderExport.out, olderExport.data,
                           source[olderExport.pos + 1])} :
       /\ olderExport' = [olderExport EXCEPT
                            !.phase = IF r.thrown # "" THEN "crashed" ELSE @,
                            !.thrown = r.thrown, !.out = r.out, !.data = r.data,
                            !.pos = @ + 1]
       /\ outFile' = IF PresentShares(olderExport.format) THEN r.out ELSE outFile
  /\ UNCHANGED <<groupBy, includeCodeSelection, priorityMap, source, format,
                 template, phase, pos, data, before, messages, console,
                 thrown, calls, reviewExportData, peer, listing, runs>>

\* .on('end', ...) of the older export that is running
OlderEnd ==
  /\ olderExport.phase = "parsing"
  /\ olderExport.pos = Len(source)
  /\ \E e \in {olderOnEnd(olderExport.format, olderExport.out, olderExport.data)} :
       /\ olderExport' = [olderExport EXCEPT !.phase = "ended", !.out = e.out,
                                             !.data = e.rows]
       /\ outFile' = IF PresentShares(olderExport.format) THEN e.out ELSE outFile
       /\ messages' = Append(messages, e.msg)
  /\ UNCHANGED <<groupBy, includeCodeSelection, priorityMap, source, format,
                 template, phase, pos, data, before, console, thrown,
                 calls, reviewExportData, peer, listing, runs>>

\* .on('error', (error) => console.error(error))
OlderError ==
  /\ olderExport.phase = "parsing"
  /\ console' = Append(console, [error |-> "cannot parse", row |-> olderExport.pos + 1])
  /\ olderExport' = [olderExport EXCEPT !.phase = "errored"]
  /\ UNCHANGED <<groupBy, includeCodeSelection, priorityMap, source, format,
                 template, phase, pos, data, outFile, before, messages, thrown,
                 calls, reviewExportData, peer, listing, runs>>

NextLines ==
  \/ \E fmt \in Formats :
       \E tpl \in (IF fmt = "html" THEN Templates ELSE {NoTemplate}) :
         ExportForFormat(fmt, tpl)
  \/ ParserData
  \/ ParserEnd
  \/ ParserError
  \/ OlderExportAsHtml
  \/ OlderExportAsGitLabCsv
  \/ OlderExportAsGitHubCsv
  \/ OlderExportAsJiraCsv
  \/ OlderExportAsJson
  \/ OlderData
  \/ OlderEnd
  \/ OlderError

SpecLines == InitLines /\ [][NextLines]_vars

\* ------------------------------------------------------------------------
\* The export methods of the older ExportFactory on the rows of a review
\* ------------------------------------------------------------------------
MaxOlderRows == 2

InitOlder ==
  /\ groupBy \in GroupKeys
  /\ includeCodeSelection \in BOOLEAN
  /\ priorityMap \in PriorityMaps
  /\ source \in SeqsUpTo(SourceRows, MaxOlderRows)
  /\ outFile = NoFile
  /\ before = outFile
  /\ format = ""
  /\ template = NoTemplate
  /\ phase = "idle"
  /\ pos = 0
  /\ data = <<>>
  /\ \E tpl \in OlderTemplates :
       /\ olderExport = olderConstructed(tpl).factory
       /\ messages = olderConstructed(tpl).messages
  /\ console = <<>>
  /\ thrown = ""
  /\ calls = 0
  /\ reviewExportData = <<>>
  /\ peer = NoPeer
  /\ listing = NoListing
  /\ runs = 0

NextOlder ==
  \/ OlderExportAsHtml
  \/ OlderExportAsGitLabCsv
  \/ OlderExportAsGitHubCsv
  \/ OlderExportAsJiraCsv
  \/ OlderExportAsJson
  \/ OlderData
  \/ OlderEnd
  \/ OlderError

SpecOlder == InitOlder /\ [][NextOlder]_vars

\* ------------------------------------------------------------------------
\* Properties
\* ------------------------------------------------------------------------
Streamed == {"gitlab", "github", "jira"}
Range(s) == {s[i] : i \in 1..Len(s)}

\* what identifies a row through the pipeline: file, set of tokens, priority
Key(row) == <<row.filename, Range(row.lines), row.priority>>
KeyOfLine(fmt, line) ==
  IF fmt = "jira" THEN <<line.filename, Range(line.lines), line.Priority>>
  ELSE <<line.description.fileRow.file, Range(line.description.linesRow)>>
KeyOfSource(fmt, row) ==
  IF fmt = "jira" THEN <<row.filename, Range(row.lines), priorityName(row.priority).value>>
  ELSE <<row.filename, Range(row.lines)>>

Resolvable(filename, tok) ==
  getFileContentForRange(toAbsolutePath(WorkspaceRoot, filename), tok) # <<>>
StartsBefore(a, b) == a[1] < b[1] \/ (a[1] = b[1] /\ a[2] <= b[2])
Ascending(tokens) ==
  \A i, j \in 1..Len(tokens) : i < j => StartsBefore(tokens[i], tokens[j])
IsSpan(chunk) == ~chunk.sep
SpanTokens(code) ==
  LET spans == SelectSeq(code.text, IsSpan)
  IN [i \in 1..Len(spans) |-> spans[i].tok]
RECURSIVE Flatten(_)
Flatten(groups) ==
  IF groups = <<>> THEN <<>> ELSE Head(groups).lines \o Flatten(Tail(groups))
GroupedRows == Range(Flatten(reviewExportData))
HtmlDone == format = "html" /\ phase = "ended"

\* C1: for a buffered format (html, json) the output file is written only by
\* the finalize step on 'end'; until then, and for good when the parser
\* emitted 'error', the file is what it was before the export was started.
C1_BufferedWrittenOnlyAtEnd ==
  storeOutside(format) /\ phase # "ended" => outFile = before

C1_Witness ==
  /\ storeOutside(format) /\ phase = "errored"
  /\ pos >= 1 /\ before = OldFile /\ outFile = OldFile

\* C2: a streamed export (gitlab, github, jira) that reached 'end' left the
\* header once, in front, followed by one record per source row, in order.
C2_StreamedHeaderThenRows ==
  format \in Streamed /\ phase = "ended" =>
    /\ Len(outFile.content) = 1 + Len(source)
    /\ outFile.content[1] = [header |-> Header(format)]
    /\ \A i \in 1..Len(source) :
         /\ "header" \notin DOMAIN outFile.content[i + 1]
         /\ KeyOfLine(format, outFile.content[i + 1]) = KeyOfSource(format, source[i])

C2_Witness ==
  /\ format \in Streamed /\ phase = "ended"
  /\ Len(source) >= 2 /\ source[1] # source[2]
  /\ Len(outFile.content) = 1 + Len(source)

\* C3: every export that stopped produced an outcome its caller can observe,
\* success naming the output path or failure with its cause; a parser 'error'
\* is reported as a failure.
C3_OutcomeObservable ==
  /\ phase = "ended" =>
       \E i \in 1..Len(messages) :
         messages[i].kind = "info" /\ messages[i].path = outputFileOf(format)
  /\ phase = "errored" =>
       \E i \in 1..Len(messages) : messages[i].kind = "error"

\* C4: the groups handed to the HTML template hold every source row exactly
\* once: no row is dropped, none is duplicated.
C4_GroupsHoldEachRowOnce ==
  HtmlDone =>
    \A x \in SourceRows :
      Cardinality({i \in 1..Len(source) : Key(source[i]) = Key(x)})
        = Cardinality({k \in 1..Len(Flatten(reviewExportData)) :
                         Key(Flatten(reviewExportData)[k]) = Key(x)})

C4_Witness ==
  /\ HtmlDone /\ template.content = "custom"
  /\ Len(source) >= 3 /\ source[1] = source[3]
  /\ Len(reviewExportData) >= 2

\* C5: with code inclusion enabled the code of a row holds its spans in
\* ascending (startLine, startCol) order whatever the stored order, so the
\* spans of a row of the HTML export follow the tokens shown in its `lines`.
C5_CodeInAscendingSpanOrder ==
  includeCodeSelection =>
    /\ \A i \in 1..Len(data) : Ascending(SpanTokens(data[i].code))
    /\ HtmlDone =>
         \A row \in GroupedRows :
           SpanTokens(row.code)
             = SelectSeq(row.lines, LAMBDA t : Resolvable(row.filename, t))

\* C6: with code inclusion enabled a row whose range cannot be resolved does
\* not abort the export: no exception leaves the callback for it, its span
\* text is left out, and every row delivered so far has been exported.
C6_UnresolvedRangeDoesNotAbort ==
  includeCodeSelection =>
    /\ thrown \in {"", "TypeError: priorityMap is undefined",
                   "TypeError: template is undefined", "ENOENT: template"}
    /\ \A i \in 1..Len(data) :
         SpanTokens(data[i].code)
           = SelectSeq(source[i].lines, LAMBDA t : Resolvable(source[i].filename, t))
    /\ thrown = "" /\ storeOutside(format) => Len(data) = pos
    /\ thrown = "" /\ format \in Streamed => Len(outFile.content) = 1 + pos

C6_Witness ==
  /\ includeCodeSelection /\ phase = "ended" /\ Len(source) = 3
  /\ source[1].filename = "gone.ts"
  /\ \E tok \in Range(source[2].lines) : ~Resolvable(source[2].filename, tok)
  /\ \A tok \in Range(source[3].lines) : Resolvable(source[3].filename, tok)

\* the present groupResults alone: after grouping by filename the tokens of
\* every row's `lines` are in ascending (startLine, startCol) order
TokensAscendingAfterGrouping ==
  HtmlDone /\ groupBy = "filename" =>
    \A row \in GroupedRows : Ascending(row.lines)

TokensAscendingReached ==
  /\ HtmlDone /\ groupBy = "filename" /\ template.content = "custom"
  /\ \E i \in 1..Len(source) : ~Ascending(source[i].lines)
  /\ \E row \in GroupedRows : Len(row.lines) >= 2

\* the export of the older factory that grouped its rows
OlderHtmlDone == olderExport.format = "html" /\ olderExport.phase = "ended"

\* C7: after grouping by filename the tokens of every row's `lines` are in
\* ascending (startLine, startCol) order, for any order in which they were
\* stored: in the groups of the present groupResults and in the rows the
\* groupResults of the older factory grouped (the rows of its document).
C7_TokensAscendingAfterGrouping ==
  /\ TokensAscendingAfterGrouping
  /\ OlderHtmlDone /\ groupBy = "filename" =>
       /\ \A i \in 1..Len(olderExport.data) : Ascending(olderExport.data[i].lines)
       /\ \A row \in Range(Flatten(olderExport.out.content[1].sections)) :
            Ascending(row.lines)

\* the rows of the source that belong to the group named name, in source order
GroupValue(row) ==
  IF groupBy = "filename" THEN row.filename
  ELSE IF row.category # "" THEN row.category ELSE "Other"
SourceOfGroup(name) == SelectSeq(source, LAMBDA r : GroupValue(r) = name)
Keys(rows) == [i \in 1..Len(rows) |-> Key(rows[i])]
StableGroups ==
  \A g \in 1..Len(reviewExportData) :
    Keys(reviewExportData[g].lines) = Keys(SourceOfGroup(reviewExportData[g].group))

\* C8 (as stated): within every group of the HTML export the rows are in
\* source order, for grouping by filename as well as by category.
C8_StablePartition == HtmlDone => StableGroups

\* C8 (amended): for a grouping key other than filename the rows of every
\* group are in source order; grouping by filename orders the rows of a
\* group by sortCsvEntryForLines, rows that compare equal staying in source
\* order.
C8_StableUnlessByFilename ==
  HtmlDone =>
    /\ groupBy # "filename" => StableGroups
    /\ groupBy = "filename" =>
         \A g \in 1..Len(reviewExportData) :
           LET rows == reviewExportData[g].lines
               src == SourceOfGroup(reviewExportData[g].group)
           IN /\ \A k \in Range(Keys(src)) :
                   Cardinality({i \in 1..Len(rows) : Key(rows[i]) = k})
                     = Cardinality({i \in 1..Len(src) : Key(src[i]) = k})
              /\ \A i, j \in 1..Len(rows) :
                   i < j => sortCsvEntryForLines(rows[i], rows[j]) <= 0

C8_Witness ==
  /\ HtmlDone /\ groupBy = "category" /\ template.content = "custom"
  /\ \E g \in 1..Len(reviewExportData) :
       /\ Len(reviewExportData[g].lines) >= 2
       /\ Key(reviewExportData[g].lines[1]) # Key(reviewExportData[g].lines[2])
  /\ Len(reviewExportData) >= 2

\* C9: for every format a row whose category is empty shows up in the output
\* with category "Other".
C9_EmptyCategoryIsOther ==
  phase = "ended" =>
    /\ format = "html" => \A row \in GroupedRows : row.category # ""
    /\ format = "json" =>
         \A i \in 1..Len(source) :
           source[i].category = "" => outFile.content[1].json[i].category = "Other"
    /\ format = "jira" =>
         \A i \in 1..Len(source) :
           source[i].category = "" => outFile.content[i + 1].category = "Other"
    /\ format \in {"gitlab", "github"} =>
         \A i \in 1..Len(source) :
           source[i].category = "" =>
             outFile.content[i + 1].description.category = Section(TRUE, "Other")

\* C10: rendering a priority never fails: an absent or out-of-range priority,
\* or a table that is not configured, yields the "unset" label; no exception
\* is raised and no undefined value is written.
C10_PriorityNameNeverFails ==
  /\ thrown # "TypeError: priorityMap is undefined"
  /\ format = "jira" =>
       \A i \in 2..Len(outFile.content) :
         /\ outFile.content[i].Priority # Undefined
         /\ source[i - 1].priority \notin {"0", "1", "2", "3"} =>
              outFile.content[i].Priority = "none"
  /\ format \in {"gitlab", "github"} =>
       \A i \in 2..Len(outFile.content) :
         outFile.content[i].description.priority.shown =>
           outFile.content[i].description.priority.value # Undefined

TitleOfLine(fmt, line) == IF fmt = "jira" THEN line.Summary[2] ELSE line.title[2]

\* C11: in the gitlab, github and jira records the title is the first 255
\* characters of `title` when that is not empty; otherwise the comment itself
\* when it has at most 100 characters, and else its first 100 characters
\* followed by '...', 103 characters in all.
C11_TitleRule ==
  format \in Streamed =>
    \A i \in 2..Len(outFile.content) :
      LET src == source[i - 1]
          t == TitleOfLine(format, outFile.content[i])
      IN IF src.title # <<>>
         THEN /\ Len(t) = Min(Len(src.title), TitleMax)
              /\ \A k \in 1..Len(t) : t[k] = src.title[k]
         ELSE IF Len(src.comment) <= DescMax
         THEN t = src.comment
         ELSE /\ Len(t) = DescMax + 3
              /\ \A k \in 1..DescMax : t[k] = src.comment[k]
              /\ \A k \in (DescMax + 1)..(DescMax + 3) : t[k] = "."

C11_Witness ==
  /\ format \in Streamed /\ phase = "ended" /\ Len(outFile.content) = 2
  /\ source[1].title = <<>> /\ Len(source[1].comment) > DescMax
  /\ Len(TitleOfLine(format, outFile.content[2])) = DescMax + 3

\* C12: with include-code disabled no row object of the JSON export has a
\* `code` key, also when the source CSV has a `code` column.
C12_JsonWithoutCodeKey ==
  format = "json" /\ ~includeCodeSelection =>
    /\ \A i \in 1..Len(data) : ~data[i].code.key
    /\ phase = "ended" =>
         /\ Len(outFile.content[1].json) = Len(source)
         /\ \A i \in 1..Len(source) : ~outFile.content[1].json[i].code.key

C12_Witness ==
  /\ format = "json" /\ ~includeCodeSelection /\ phase = "ended"
  /\ source[1].code.key
  /\ Len(outFile.content[1].json) = 1

Finished == phase \in {"ended", "crashed"}
Usable(tpl) == tpl.given /\ tpl.readable /\ tpl.content # ""
Unusable(tpl) == tpl.given /\ (~tpl.readable \/ tpl.content = "")

\* C13: on a source with the header line and no rows every export completes:
\* html renders a document with zero group sections, gitlab, github and jira
\* leave a file holding the header only, json writes an empty array.  (An
\* html export with an unusable custom template is left to C14.)
C13_HeaderOnlyCompletes ==
  source = <<>> /\ Finished /\ ~(format = "html" /\ Unusable(template)) =>
    /\ phase = "ended"
    /\ outFile.exists
    /\ CASE format = "html" ->
              /\ Len(outFile.content) = 1
              /\ outFile.content[1].sections = <<>>
         [] format = "json" -> outFile.content = <<[json |-> <<>>]>>
         [] OTHER -> outFile.content = <<[header |-> Header(format)]>>

\* C14: an html export whose custom template is missing, unreadable or empty
\* is aborted: an error is reported (a message, or the exception of the failed
\* read) and no HTML file is written.
C14_UnusableTemplateAborts ==
  format = "html" /\ Unusable(template) /\ Finished =>
    /\ outFile = before
    /\ \/ thrown # ""
       \/ \E i \in 1..Len(messages) : messages[i].kind = "error"
    /\ \A i \in 1..Len(messages) : messages[i].kind # "info"

\* C15: an html export renders with the external template when one is
\* supplied and with the built-in default when none is; in both cases the
\* 'end' step completes and writes the HTML file.
C15_TemplateOrDefault ==
  format = "html" /\ ~Unusable(template) /\ pos = Len(source)
    /\ phase \notin {"parsing", "errored"} =>
      /\ phase = "ended"
      /\ outFile.exists
      /\ Len(outFile.content) = 1
      /\ outFile.content[1].template = IF template.given THEN template.content ELSE "default"

FirstIndex(name) ==
  CHOOSE k \in 1..Len(source) :
    /\ GroupValue(source[k]) = name
    /\ \A h \in 1..(k - 1) : GroupValue(source[h]) # name

\* C17: groupResults returns one group per distinct value of the grouping
\* key, no two groups with the same name, in the order in which the values
\* first occur in the row stream.
C17_GroupsByFirstOccurrence ==
  HtmlDone =>
    /\ {reviewExportData[g].group : g \in 1..Len(reviewExportData)}
         = {GroupValue(source[k]) : k \in 1..Len(source)}
    /\ \A g, h \in 1..Len(reviewExportData) :
         g < h =>
           /\ reviewExportData[g].group # reviewExportData[h].group
           /\ FirstIndex(reviewExportData[g].group) < FirstIndex(reviewExportData[h].group)

\* the first group is "b.ts", the second "a.ts": first seen, not alphabetical
C17_Witness ==
  /\ HtmlDone /\ groupBy = "filename" /\ template.content = "custom"
  /\ Len(reviewExportData) = 2
  /\ reviewExportData[1].group = "b.ts" /\ reviewExportData[2].group = "a.ts"
  /\ Len(source) = 3

\* C18 (as stated): for a grouping key other than filename the tokens of
\* every grouped row's `lines` are in the order in which the source stores
\* them.
C18_TokensKeptUnlessByFilename ==
  HtmlDone /\ Usable(template) /\ groupBy # "filename" =>
    \A g \in 1..Len(reviewExportData) :
      LET rows == reviewExportData[g].lines
          src == SourceOfGroup(reviewExportData[g].group)
      IN /\ Len(rows) = Len(src)
         /\ \A i \in 1..Len(rows) : rows[i].lines = src[i].lines

\* C18 (amended): for a grouping key other than filename too, grouping
\* reorders the tokens of every row's `lines`: the grouped row holds the
\* tokens of the source row, in ascending (start line, start column) order.
C18_TokensSortedForAnyKey ==
  HtmlDone /\ groupBy # "filename" =>
    \A g \in 1..Len(reviewExportData) :
      LET rows == reviewExportData[g].lines
          src == SourceOfGroup(reviewExportData[g].group)
      IN /\ Len(rows) = Len(src)
         /\ \A i \in 1..Len(rows) :
              /\ Len(rows[i].lines) = Len(src[i].lines)
              /\ Range(rows[i].lines) = Range(src[i].lines)
              /\ Ascending(rows[i].lines)

C18_Witness ==
  /\ HtmlDone /\ groupBy = "category" /\ template.content = "custom"
  /\ \E g \in 1..Len(reviewExportData) :
       \E i \in 1..Len(reviewExportData[g].lines) :
         LET src == SourceOfGroup(reviewExportData[g].group)
         IN /\ ~Ascending(src[i].lines)
            /\ reviewExportData[g].lines[i].lines # src[i].lines

\* the comment of the i-th source row as the export of format fmt wrote it
WrittenComments(fmt, i) ==
  CASE fmt = "json" -> {outFile.content[1].json[i].comment}
    [] fmt = "jira" ->
         {outFile.content[i + 1].comment, outFile.content[i + 1].Description.comment}
    [] fmt \in {"gitlab", "github"} -> {outFile.content[i + 1].description.comment}
    [] fmt = "html" ->
         {row.comment : row \in {r \in GroupedRows : Key(r) = Key(source[i])}}
HasLineBreak(text) == NL \in Range(text)
HasEscape(text) ==
  \E k \in 1..(Len(text) - 1) : text[k] = BSL /\ text[k + 1] = "n"

\* C19 (as stated): in every format the comment that is rendered is the
\* stored comment with its escape sequences turned into line breaks.
C19_RenderedCommentUnescaped ==
  phase = "ended" /\ (format = "html" => Usable(template)) =>
    \A i \in 1..Len(source) :
      WrittenComments(format, i) = {unescapeEndOfLineFromCsv(source[i].comment)}

\* C19 (amended): html and json render the comment with its escape sequences
\* turned into line breaks; gitlab, github and jira escape the line breaks
\* again before they write, so their records hold no line break in the
\* comment.
C19_UnescapedUnlessCsv ==
  phase = "ended" /\ (format = "html" => Usable(template)) =>
    \A i \in 1..Len(source) :
      IF format \in Streamed
      THEN /\ WrittenComments(format, i) =
                {escapeEndOfLineForCsv(unescapeEndOfLineFromCsv(source[i].comment))}
           /\ \A c \in WrittenComments(format, i) : ~HasLineBreak(c)
      ELSE /\ WrittenComments(format, i) = {unescapeEndOfLineFromCsv(source[i].comment)}
           /\ \A c \in WrittenComments(format, i) : ~HasEscape(c)

C19_Witness ==
  /\ phase = "ended" /\ format \in Streamed
  /\ Len(source) >= 1 /\ HasEscape(source[1].comment)
  /\ \E c \in WrittenComments(format, 1) : HasEscape(c)

\* C20: the two JIRA exports disagree on the Priority column of a row: the
\* older one writes the inverted number (1 to 3, 2 to 2, 3 to 1, anything
\* else to 3), the present one the label looked up for the row's priority;
\* for the same row the two values are never equal.
C20_JiraPriorityDiffers ==
  format = "jira" =>
    \A i \in 2..Len(outFile.content) :
      LET priority == source[i - 1].priority
          older == jiraPriorityInverted(priority)
          written == outFile.content[i].Priority
      IN /\ older = (IF priority = "3" THEN "1" ELSE IF priority = "2" THEN "2" ELSE "3")
         /\ written = (IF priority \in {"0", "1", "2", "3"}
                       THEN priorityMap.labels[PriorityIndex[priority] + 1]
                       ELSE Undefined)
         /\ written # older

C20_Witness ==
  /\ format = "jira" /\ phase = "ended" /\ Len(source) >= 2
  /\ \E i \in 1..Len(source) :
       /\ source[i].priority = "1"
       /\ outFile.content[i + 1].Priority = "low"
       /\ jiraPriorityInverted(source[i].priority) = "3"
  /\ \E i \in 1..Len(source) :
       /\ source[i].priority = "7"
       /\ outFile.content[i + 1].Priority = Undefined

\* an export of format fmt running alone: the header, the 'data' callback on
\* the first n rows of the source (up to the first exception), and the 'end'
\* callback when finished
RECURSIVE RunAlone(_, _)
RunAlone(fmt, n) ==
  IF n = 0
  THEN [thrown |-> "", out |-> writeFileHeader(fmt, NoFile), data |-> <<>>, calls |-> 0]
  ELSE The({ IF prev.thrown # "" THEN prev
             ELSE onData(fmt, prev.out, prev.data, source[n])
           : prev \in {RunAlone(fmt, n - 1)} })

AloneFile(fmt, tpl, n, finished) ==
  The({ IF finished /\ run.thrown = ""
        THEN handleEnd(fmt, run.out, IF storeOutside(fmt) THEN run.data ELSE <<>>, tpl).out
        ELSE run.out
      : run \in {RunAlone(fmt, n)} })

\* C16: two exports for different formats on one factory do not disturb each
\* other: however their 'data' and 'end' callbacks interleave, the output
\* file of each is the file the export writes when it runs alone on the same
\* source.
C16_ConcurrentExportsIndependent ==
  /\ phase # "idle" =>
       outFile = AloneFile(format, template, pos, phase \in {"ended", "crashed"})
  /\ peer.phase # "idle" =>
       peer.out = AloneFile(peer.format, peer.template, peer.pos,
                            peer.phase \in {"ended", "crashed"})

\* both exports ran to their 'end', the callbacks of one between those of the
\* other, and both wrote rows
C16_Witness ==
  /\ phase = "ended" /\ peer.phase = "ended"
  /\ Len(source) = MaxPairRows
  /\ format = "gitlab" /\ peer.format = "html"
  /\ Len(messages) = 2 /\ messages[1].path = outputFileOf("html")
  /\ Len(outFile.content) = 1 + Len(source)
  /\ Len(peer.out.content) = 1 /\ peer.out.content[1].sections # <<>>

\* the code of a written record of a streamed format, as it stands in the
\* code fence
WrittenCode(fmt, line) ==
  IF fmt = "jira" THEN line.Description.code ELSE line.description.code

\* C21: extracted code is in its transport encoding only where it is decoded
\* again before the output: the HTML document holds the decoded text, and the
\* code written by gitlab, github, jira (code fence) and json (`code` field)
\* is the extracted source text itself, not its encoded form.
C21_EncodedOnlyWhereDecoded ==
  /\ format = "html" /\ phase = "ended" =>
       \A g \in 1..Len(outFile.content[1].sections) :
         \A k \in 1..Len(outFile.content[1].sections[g].lines) :
           ~outFile.content[1].sections[g].lines[k].code.enc
  /\ format \in Streamed =>
       \A i \in 2..Len(outFile.content) :
         WrittenCode(format, outFile.content[i]).shown =>
           ~WrittenCode(format, outFile.content[i]).value.enc
  /\ format = "json" /\ phase = "ended" =>
       \A i \in 1..Len(outFile.content[1].json) :
         ~outFile.content[1].json[i].code.enc

\* C22: every row the parser delivers causes exactly one invocation of the
\* format's handleData, for the buffered formats as for the streamed ones.
C22_OneTransformPerRow ==
  thrown = "" => calls = pos

\* C23: the promise of getFilesContainingComments is resolved in every case:
\* when the input file is missing, when the parser reached 'end', and when
\* the parser emitted 'error'.  (No callback follows these, so the promise
\* must be resolved by then.)
C23_PromiseAlwaysResolved ==
  listing.phase \in {"returned", "ended", "errored"} => listing.resolved

\* C24: an export run to completion a second time on the unchanged source
\* leaves the output file the first run left: a streamed format starts again
\* from a newly written header, a buffered format holds the rows of the
\* present run only.
C24_SecondRunSameFile ==
  runs >= 2 =>
    /\ phase = "ended" => outFile = before
    /\ format \in Streamed /\ thrown = "" => Len(outFile.content) = 1 + pos
    /\ storeOutside(format) /\ thrown = "" => Len(data) = pos

C24_Witness ==
  /\ runs = 2 /\ phase = "ended" /\ Len(source) = MaxAgainRows
  /\ format \in Streamed
  /\ before.exists /\ Len(before.content) = 1 + Len(source)
  /\ Len(outFile.content) = 1 + Len(source)

\* C25: with code inclusion enabled a row whose `lines` is empty gets an
\* empty code field and the export goes on with the next row: getCodeForFile
\* raises no exception for the empty selector, in the present implementation
\* and in the older one.
C25_EmptySelectorGivesEmptyCode ==
  includeCodeSelection =>
    /\ thrown \in {"", "TypeError: priorityMap is undefined",
                   "TypeError: template is undefined", "ENOENT: template"}
    /\ \A i \in 1..Len(data) : data[i].lines = <<>> => data[i].code.text = <<>>
    /\ olderExport.thrown = ""
    /\ \A i \in 1..Len(olderExport.data) :
         olderExport.data[i].lines = <<>> => olderExport.data[i].code.text = <<>>
    /\ olderExport.format \in {"html", "json"} /\ olderExport.phase \in {"parsing", "ended"}
         => Len(olderExport.data) = olderExport.pos

====
